---- MODULE Spec2Model ----
(***************************************************************************)
(* A model of libcamera/CameraHardware.cpp: the camera HAL object that     *)
(* drives a V4L2 device session, a preview loop thread, one-shot autofocus *)
(* tasks and a synchronous still-picture cycle, and reports to the client  *)
(* through three callback entry points.                                    *)
(*                                                                         *)
(* Threads of the model:                                                   *)
(*   - the control thread: startPreview / stopPreview / takePicture, one   *)
(*     call at a time, stepping through the statements of the call;        *)
(*   - a second client thread: the short operations (enableMsgType,        *)
(*     disableMsgType, setCallbacks, setParameters, startRecording,        *)
(*     stopRecording, autoFocus), each one step;                           *)
(*   - the preview thread, stepping through previewThread();               *)
(*   - the autofocus tasks, stepping through autoFocusThread().            *)
(***************************************************************************)
EXTENDS Integers, Sequences, FiniteSets

\* ---------------------------------------------------------------- bounds

\* Autofocus tasks that may be alive at once.
MaxFocusTasks == 1

\* The autoFocus calls a specification notes the results of.
MaxFocusCalls == 3

\* ------------------------------------------------------ program constants

MIN_WIDTH == 320
MIN_HEIGHT == 240
\* for( i=0; i<10; i++)  sprintf(devnode,"/dev/video%d",i)
NumNodes == 10

\* The event kinds (bits of mMsgEnabled) the file uses.
CAMERA_MSG_SHUTTER == "SHUTTER"
CAMERA_MSG_FOCUS == "FOCUS"
CAMERA_MSG_PREVIEW_FRAME == "PREVIEW_FRAME"
CAMERA_MSG_VIDEO_FRAME == "VIDEO_FRAME"
CAMERA_MSG_COMPRESSED_IMAGE == "COMPRESSED_IMAGE"

MsgTypes ==
    { CAMERA_MSG_SHUTTER, CAMERA_MSG_FOCUS, CAMERA_MSG_PREVIEW_FRAME,
      CAMERA_MSG_VIDEO_FRAME, CAMERA_MSG_COMPRESSED_IMAGE }

\* A null sp<MemoryHeapBase>.
NoHeap == -1

\* The sets of device nodes the environment may make openable at a probe.
NodeSets == { {}, {0}, {NumNodes - 1} }

\* The preview sizes a client may configure.
PreviewSizes == { <<MIN_WIDTH, MIN_HEIGHT>>, <<640, 480>> }

VARIABLES
    mParameters,        \* [previewSize, pictureSize, frameRate]
    mMsgEnabled,        \* set of enabled event kinds
    mNotifyFn,          \* TRUE iff the entry point is non-null
    mDataFn,
    mTimestampFn,
    mPreviewFrameSize,
    mHeap,              \* size of the preview heap, or NoHeap
    mRecordHeap,        \* size of the record heap, or NoHeap
    mRecordRunning,
    previewStopped,
    mPreviewThread,     \* TRUE iff the sp<PreviewThread> is non-null
    camera,             \* device session state
    unmatched,          \* successful Opens not yet followed by a Close
    ctlPc,              \* statement the control thread is at
    spLocal,            \* stopPreview's local sp<PreviewThread> (non-null?)
    call,               \* [op, status] of the control thread's current or last call
    devLog,             \* driver calls issued by that call
    picEvents,          \* compressed-image callbacks made by that call
    picSeen,            \* "on"/"off": the compressed-image bit as that call tested it, or "untested"
    ptPc,               \* preview thread position
    ptExitPending,      \* Thread::requestExit() has been called
    iter,               \* locals and deliveries of the loop iteration in progress
    afCheck,            \* autofocus tasks spawned, not yet at the test
    afNotify,           \* autofocus tasks past the test, about to notify
    crashed,            \* a call went through a null entry point
    mLock,              \* the thread inside a Mutex::Autolock scope, or "free"
    cfgReq,             \* the last setParameters request noted
    cfgPrev,            \* mParameters as that request found it
    cfgRet,             \* the status that request returned
    got,                \* what getParameters returned since, or NoParameters
    afRet,              \* the status of the last autoFocus call noted
    afCalls,            \* autoFocus calls noted
    afSpawned,          \* of these, the ones that spawned a task
    afEvents            \* focus callbacks made by noted tasks

vars ==
    << mParameters, mMsgEnabled, mNotifyFn, mDataFn, mTimestampFn,
       mPreviewFrameSize, mHeap, mRecordHeap, mRecordRunning, previewStopped,
       mPreviewThread, camera, unmatched, ctlPc, spLocal, call, devLog,
       picEvents, picSeen, ptPc, ptExitPending, iter, afCheck, afNotify,
       crashed, mLock, cfgReq, cfgPrev, cfgRet, got, afRet, afCalls,
       afSpawned, afEvents >>

\* What a specification notes about the short operations, for the claims
\* about their results; the operations themselves never read it.
noteVars == << cfgReq, cfgPrev, cfgRet, got, afRet, afCalls, afSpawned, afEvents >>

configVars == << mParameters, mMsgEnabled, mNotifyFn, mDataFn, mTimestampFn >>
heapVars == << mPreviewFrameSize, mHeap, mRecordHeap, mRecordRunning >>
ctlVars == << ctlPc, spLocal, call, devLog, picEvents, picSeen >>
ptVars == << ptPc, ptExitPending, iter >>
afVars == << afCheck, afNotify >>
devVars == << camera, unmatched >>

\* ---------------------------------------------------------- device session

\* The state a driver call must find the session in.
Requires(op) ==
    CASE op = "Open" -> "Closed"
      [] op = "Init" -> "Opened"
      [] op = "StartStreaming" -> "Initialized"
      [] op = "GrabPreviewFrame" -> "Streaming"
      [] op = "GrabJpegFrame" -> "Streaming"
      [] op = "StopStreaming" -> "Streaming"
      [] op = "Uninit" -> "Initialized"
      [] op = "Close" -> "Opened"

\* The state a successful, in-order driver call leaves the session in.
Establishes(op) ==
    CASE op = "Open" -> "Opened"
      [] op = "Init" -> "Initialized"
      [] op = "StartStreaming" -> "Streaming"
      [] op = "GrabPreviewFrame" -> "Streaming"
      [] op = "GrabJpegFrame" -> "Streaming"
      [] op = "StopStreaming" -> "Initialized"
      [] op = "Uninit" -> "Opened"
      [] op = "Close" -> "Closed"

\* The session after one driver call: a call that fails or comes out of order
\* leaves the state as it was, except Close, which always releases the node.
DevAfter(st, op, ok) ==
    IF op = "Close" THEN "Closed"
    ELSE IF ok /\ st = Requires(op) THEN Establishes(op)
    ELSE st

\* A log entry: the call, the state it was issued in, and whether it succeeded.
Entry(st, op, ok) == [op |-> op, at |-> st, ok |-> ok /\ (st = Requires(op) \/ op = "Close")]

RECURSIVE RunCalls(_, _)
\* The session after a sequence of <<op, ok>> calls.
RunCalls(st, calls) ==
    IF calls = << >> THEN st
    ELSE RunCalls(DevAfter(st, Head(calls)[1], Head(calls)[2]), Tail(calls))

RECURSIVE LogCalls(_, _)
\* The log entries of a sequence of <<op, ok>> calls.
LogCalls(st, calls) ==
    IF calls = << >> THEN << >>
    ELSE << Entry(st, Head(calls)[1], Head(calls)[2]) >>
         \o LogCalls(DevAfter(st, Head(calls)[1], Head(calls)[2]), Tail(calls))

RECURSIVE Balance(_)
\* Successful Opens minus Closes in a log.
Balance(log) ==
    IF log = << >> THEN 0
    ELSE (IF Head(log).op = "Open" /\ Head(log).ok THEN 1
          ELSE IF Head(log).op = "Close" THEN -1 ELSE 0) + Balance(Tail(log))

RECURSIVE ProbeNodes(_, _)
\* for (i = 0; i < 10; i++) { ret = camera.Open(devnode...); if (ret >= 0) break; }
\* The index of the node that opened, or -1.
ProbeNodes(i, avail) ==
    IF i >= NumNodes THEN -1
    ELSE IF i \in avail THEN i
    ELSE ProbeNodes(i + 1, avail)

\* ------------------------------------------------------------ configuration

supportedFpsRanges ==
    << <<8000, 8000>>, <<8000, 10000>>, <<10000, 10000>>, <<8000, 15000>>,
       <<15000, 15000>>, <<8000, 20000>>, <<20000, 20000>>, <<24000, 24000>>,
       <<25000, 25000>>, <<8000, 30000>>, <<30000, 30000>> >>

\* The CameraParameters initDefaultParameters() builds.
DefaultParameters ==
    [ previewSize |-> <<MIN_WIDTH, MIN_HEIGHT>>,
      frameRate |-> 30,
      previewFormat |-> "yuv422sp",
      pictureSize |-> <<MIN_WIDTH, MIN_HEIGHT>>,
      pictureFormat |-> "jpeg",
      fpsRange |-> << >> ]

\* CameraParameters keeps a size as the text "<width>x<height>":
\* setPreviewSize formats it with "%dx%d" and getPreviewSize reads it back
\* with strtol, giving (-1, -1) when no 'x' follows the width.
Digits == << "0", "1", "2", "3", "4", "5", "6", "7", "8", "9" >>

IsDigit(c) == \E d \in DOMAIN Digits : Digits[d] = c

DigitValue(c) == (CHOOSE d \in DOMAIN Digits : Digits[d] = c) - 1

RECURSIVE FormatNat(_)
FormatNat(n) ==
    IF n < Len(Digits) THEN << Digits[n + 1] >>
    ELSE Append(FormatNat(n \div Len(Digits)), Digits[(n % Len(Digits)) + 1])

FormatInt(n) == IF n < 0 THEN << "-" >> \o FormatNat(-n) ELSE FormatNat(n)

FormatSize(w, h) == FormatInt(w) \o << "x" >> \o FormatInt(h)

RECURSIVE ScanDigits(_, _, _)
ScanDigits(text, i, acc) ==
    IF i <= Len(text) /\ IsDigit(text[i])
    THEN ScanDigits(text, i + 1, acc * Len(Digits) + DigitValue(text[i]))
    ELSE [ val |-> acc, end |-> i ]

ScanInt(text, i) ==
    IF i <= Len(text) /\ text[i] = "-"
    THEN LET r == ScanDigits(text, i + 1, 0) IN [ val |-> -r.val, end |-> r.end ]
    ELSE ScanDigits(text, i, 0)

ParseSize(text) ==
    LET w == ScanInt(text, 1) IN
    IF w.end > Len(text) \/ text[w.end] # "x" THEN << -1, -1 >>
    ELSE << w.val, ScanInt(text, w.end + 1).val >>

\* params.getPreviewSize(&w, &h); mParameters.setPreviewSize(w, h): the size
\* a later getPreviewSize reads from what setPreviewSize stored.
StoredSize(size) == ParseSize(FormatSize(size[1], size[2]))

\* SetParametersStatus with the picture format left unchecked.
SetParametersStatusPreviewOnly(params) ==
    IF params.previewFormat # "yuv422sp" THEN "UNSUPPORTED_FORMAT"
    ELSE "NO_ERROR"

\* setParameters' status for a request.
SetParametersStatus(params) ==
    IF params.previewFormat # "yuv422sp" THEN "UNSUPPORTED_FORMAT"
    ELSE IF params.pictureFormat # "jpeg" THEN "UNSUPPORTED_FORMAT"
    ELSE "NO_ERROR"

\* SetParametersResult keeping the frame-rate-range list of the request.
SetParametersResultKeepsList(cur, params) ==
    IF SetParametersStatus(params) # "NO_ERROR" THEN cur
    ELSE [ params EXCEPT !.previewSize = StoredSize(params.previewSize) ]

\* mParameters after setParameters(params), given what it held.
SetParametersResult(cur, params) ==
    IF SetParametersStatus(params) # "NO_ERROR" THEN cur
    ELSE [ params EXCEPT !.previewSize = StoredSize(params.previewSize),
                         !.fpsRange = supportedFpsRanges ]

\* The requests the second client thread makes in the main specification.
ConfigRequests ==
    { [ DefaultParameters EXCEPT !.previewSize = sz ] : sz \in PreviewSizes }

\* The picture sizes, frame rates, formats and frame-rate-range lists a
\* client passes to setParameters.
PictureSizes == { << MIN_WIDTH, MIN_HEIGHT >>, << 1280, 720 >> }
FrameRates == { 15, 30 }
PreviewFormats == { "yuv422sp", "yuv420sp" }
PictureFormats == { "jpeg", "rgb565" }
FpsRangeLists == { << >>, << << 5000, 60000 >> >> }

\* Every request made of these.
ConfigInputs ==
    [ previewSize : PreviewSizes, frameRate : FrameRates,
      previewFormat : PreviewFormats, pictureSize : PictureSizes,
      pictureFormat : PictureFormats, fpsRange : FpsRangeLists ]

\* One loop iteration's locals and deliveries, before it has done anything.
\*   w, h     the preview size read at the top of previewThread()
\*   grab     the session state GrabPreviewFrame was issued in, or "none"
\*   seen     the preview/video kinds that were enabled when the iteration
\*            tested mMsgEnabled
\*   vbit     the video-frame bit as the second test of mMsgEnabled read it
\*   rec      mRecordRunning as that test read it
\*   video    size of the record buffer handed to the timestamp callback, or NoHeap
\*   preview  size of the preview buffer handed to the data callback, or NoHeap
NoIter ==
    [ w |-> 0, h |-> 0, grab |-> "none", seen |-> {}, vbit |-> FALSE,
      rec |-> FALSE, video |-> NoHeap, preview |-> NoHeap ]

NoCall == [ op |-> "none", status |-> "none" ]

\* No CameraParameters: nothing was requested or returned yet.
NoParameters ==
    [ previewSize |-> << 0, 0 >>, frameRate |-> 0, previewFormat |-> "none",
      pictureSize |-> << 0, 0 >>, pictureFormat |-> "none", fpsRange |-> << >> ]

Init ==
    /\ mParameters = SetParametersResult(DefaultParameters, DefaultParameters)
    /\ mMsgEnabled = {}
    /\ mNotifyFn = FALSE
    /\ mDataFn = FALSE
    /\ mTimestampFn = FALSE
    /\ mPreviewFrameSize = 0
    /\ mHeap = NoHeap
    /\ mRecordHeap = NoHeap
    /\ mRecordRunning = FALSE
    /\ previewStopped = TRUE
    /\ mPreviewThread = FALSE
    /\ camera = "Closed"
    /\ unmatched = 0
    /\ ctlPc = "idle"
    /\ spLocal = FALSE
    /\ call = NoCall
    /\ devLog = << >>
    /\ picEvents = 0
    /\ picSeen = "untested"
    /\ ptPc = "none"
    /\ ptExitPending = FALSE
    /\ iter = NoIter
    /\ afCheck = 0
    /\ afNotify = 0
    /\ crashed = FALSE
    /\ mLock = "free"
    /\ cfgReq = NoParameters
    /\ cfgPrev = NoParameters
    /\ cfgRet = "none"
    /\ got = NoParameters
    /\ afRet = "none"
    /\ afCalls = 0
    /\ afSpawned = 0
    /\ afEvents = 0

\* A callback of the client may call back into the controller through an
\* operation that takes mLock (msgTypeEnabled, getParameters), and returns
\* once it has had the lock.
CallbackReturns == mLock = "free"

\* ------------------------------------------------- the second client thread

\* setCallbacks(notify_cb, data_cb, data_cb_timestamp, arg)
SetCallbacks(n, d, t) ==
    /\ ~crashed
    /\ mLock = "free"
    /\ mNotifyFn' = n
    /\ mDataFn' = d
    /\ mTimestampFn' = t
    /\ UNCHANGED << mLock, noteVars, mParameters, mMsgEnabled, heapVars, previewStopped,
                    mPreviewThread, devVars, ctlVars, ptVars, afVars, crashed >>

\* mMsgEnabled |= msgType
EnableMsgType(k) ==
    /\ ~crashed
    /\ mLock = "free"
    /\ mMsgEnabled' = mMsgEnabled \cup {k}
    /\ UNCHANGED << mLock, noteVars, mParameters, mNotifyFn, mDataFn, mTimestampFn, heapVars,
                    previewStopped, mPreviewThread, devVars, ctlVars, ptVars,
                    afVars, crashed >>

\* mMsgEnabled &= ~msgType
DisableMsgType(k) ==
    /\ ~crashed
    /\ mLock = "free"
    /\ mMsgEnabled' = mMsgEnabled \ {k}
    /\ UNCHANGED << mLock, noteVars, mParameters, mNotifyFn, mDataFn, mTimestampFn, heapVars,
                    previewStopped, mPreviewThread, devVars, ctlVars, ptVars,
                    afVars, crashed >>

\* setParameters(params); a specification that observes the call notes the
\* request, what it found and what it returned.
SetParametersCall(params, noted) ==
    /\ ~crashed
    /\ mLock = "free"
    /\ mParameters' = SetParametersResult(mParameters, params)
    /\ IF noted
       THEN /\ cfgReq' = params
            /\ cfgPrev' = mParameters
            /\ cfgRet' = SetParametersStatus(params)
            /\ got' = NoParameters
       ELSE UNCHANGED << cfgReq, cfgPrev, cfgRet, got >>
    /\ UNCHANGED << mLock, afRet, afCalls, afSpawned, afEvents, mMsgEnabled,
                    mNotifyFn, mDataFn, mTimestampFn, heapVars,
                    previewStopped, mPreviewThread, devVars, ctlVars, ptVars,
                    afVars, crashed >>

SetParameters(params) == SetParametersCall(params, FALSE)

\* getParameters(): params = mParameters under mLock
GetParameters ==
    /\ ~crashed
    /\ mLock = "free"
    /\ got' = mParameters
    /\ UNCHANGED << mLock, cfgReq, cfgPrev, cfgRet, afRet, afCalls, afSpawned,
                    afEvents, configVars, heapVars, previewStopped,
                    mPreviewThread, devVars, ctlVars, ptVars, afVars, crashed >>

\* mRecordHeap = new MemoryHeapBase(mPreviewFrameSize*3/4)
RecordHeapSize(frameSize) == (frameSize * 3) \div 4

StartRecording ==
    /\ ~crashed
    /\ mLock = "free"
    /\ mRecordHeap' = RecordHeapSize(mPreviewFrameSize)
    /\ mRecordRunning' = TRUE
    /\ UNCHANGED << mLock, noteVars, configVars, mPreviewFrameSize, mHeap, previewStopped,
                    mPreviewThread, devVars, ctlVars, ptVars, afVars, crashed >>

StopRecording ==
    /\ ~crashed
    /\ mRecordRunning' = FALSE
    /\ UNCHANGED << mLock, noteVars, configVars, mPreviewFrameSize, mHeap, mRecordHeap,
                    previewStopped, mPreviewThread, devVars, ctlVars, ptVars,
                    afVars, crashed >>

\* autoFocus(): UNKNOWN_ERROR if createThread() returned false.
AutoFocusStatus(spawned) == IF spawned THEN "NO_ERROR" ELSE "UNKNOWN_ERROR"

\* autoFocus(): createThread(beginAutoFocusThread, this) succeeds (spawned) or
\* not; a specification that observes the call notes its status.
AutoFocusCall(spawned, noted) ==
    /\ ~crashed
    /\ mLock = "free"
    /\ afCheck + afNotify < MaxFocusTasks
    /\ afCheck' = IF spawned THEN afCheck + 1 ELSE afCheck
    /\ IF noted
       THEN /\ afCalls < MaxFocusCalls
            /\ afCalls' = afCalls + 1
            /\ afRet' = AutoFocusStatus(spawned)
            /\ afSpawned' = IF spawned THEN afSpawned + 1 ELSE afSpawned
       ELSE UNCHANGED << afCalls, afRet, afSpawned >>
    /\ UNCHANGED << mLock, cfgReq, cfgPrev, cfgRet, got, afEvents, configVars,
                    heapVars, previewStopped, mPreviewThread, devVars, ctlVars,
                    ptVars, afNotify, crashed >>

AutoFocus(spawned) == AutoFocusCall(spawned, FALSE)

\* WantsFocus with the test of the focus bit left out.
WantsFocusAlways(enabled) == TRUE

\* mMsgEnabled & CAMERA_MSG_FOCUS
WantsFocus(enabled) == CAMERA_MSG_FOCUS \in enabled

\* autoFocusThread(): if (mMsgEnabled & CAMERA_MSG_FOCUS)
AutoFocusTest ==
    /\ ~crashed
    /\ afCheck > 0
    /\ afCheck' = afCheck - 1
    /\ afNotify' = IF WantsFocus(mMsgEnabled) THEN afNotify + 1 ELSE afNotify
    /\ UNCHANGED << mLock, noteVars, configVars, heapVars, previewStopped,
                    mPreviewThread, devVars, ctlVars, ptVars, crashed >>

\* autoFocusThread(): mNotifyFn(CAMERA_MSG_FOCUS, true, 0, mUser)
AutoFocusThreadNotify(noted) ==
    /\ ~crashed
    /\ CallbackReturns
    /\ afNotify > 0
    /\ afNotify' = afNotify - 1
    /\ crashed' = ~mNotifyFn
    /\ afEvents' = IF noted THEN afEvents + 1 ELSE afEvents
    /\ UNCHANGED << mLock, cfgReq, cfgPrev, cfgRet, got, afRet, afCalls,
                    afSpawned, configVars, heapVars, previewStopped,
                    mPreviewThread, devVars, ctlVars, ptVars, afCheck >>

AutoFocusNotify == AutoFocusThreadNotify(FALSE)

\* ------------------------------------------------------- the preview thread

\* PreviewThread's loop calls previewThread() again and again, until an exit
\* has been requested of the thread.
LoopExits == ptExitPending

\* The top of an iteration: the loop is left, or previewThread() is entered
\* and reads the preview size (mParameters.getPreviewSize).
PreviewLoopTop ==
    /\ ~crashed
    /\ ptPc = "run"
    /\ IF LoopExits
       THEN /\ ptPc' = "exited"
            /\ iter' = iter
       ELSE /\ ptPc' = "stopped"
            /\ iter' = [ NoIter EXCEPT !.w = mParameters.previewSize[1],
                                       !.h = mParameters.previewSize[2] ]
    /\ UNCHANGED << mLock, noteVars, configVars, heapVars, previewStopped, mPreviewThread,
                    devVars, ctlVars, ptExitPending, afVars, crashed >>

\* if (!previewStopped)
PreviewTestStopped ==
    /\ ~crashed
    /\ ptPc = "stopped"
    /\ ptPc' = IF ~previewStopped THEN "grab" ELSE "run"
    /\ UNCHANGED << mLock, noteVars, configVars, heapVars, previewStopped, mPreviewThread,
                    devVars, ctlVars, ptExitPending, iter, afVars, crashed >>

\* camera.GrabPreviewFrame(mHeap->getBase())
PreviewGrab ==
    /\ ~crashed
    /\ ptPc = "grab"
    /\ ptPc' = "msg"
    /\ camera' = DevAfter(camera, "GrabPreviewFrame", TRUE)
    /\ iter' = [ iter EXCEPT !.grab = camera ]
    /\ UNCHANGED << mLock, noteVars, configVars, heapVars, previewStopped, mPreviewThread,
                    unmatched, ctlVars, ptExitPending, afVars, crashed >>

\* WantsFrame with the video-frame half of the test left out.
WantsFrameOnlyPreview(enabled) == CAMERA_MSG_PREVIEW_FRAME \in enabled

\* (mMsgEnabled & CAMERA_MSG_PREVIEW_FRAME) || (mMsgEnabled & CAMERA_MSG_VIDEO_FRAME)
WantsFrame(enabled) ==
    CAMERA_MSG_PREVIEW_FRAME \in enabled \/ CAMERA_MSG_VIDEO_FRAME \in enabled

PreviewTestMsg ==
    /\ ~crashed
    /\ ptPc = "msg"
    /\ ptPc' = IF WantsFrame(mMsgEnabled) THEN "video" ELSE "run"
    /\ iter' = [ iter EXCEPT !.seen = mMsgEnabled \cap
                     { CAMERA_MSG_PREVIEW_FRAME, CAMERA_MSG_VIDEO_FRAME } ]
    /\ UNCHANGED << mLock, noteVars, configVars, heapVars, previewStopped, mPreviewThread,
                    devVars, ctlVars, ptExitPending, afVars, crashed >>

\* (mMsgEnabled & CAMERA_MSG_VIDEO_FRAME) && mRecordRunning
WantsVideo(enabled, recording) ==
    CAMERA_MSG_VIDEO_FRAME \in enabled /\ recording

PreviewTestVideo ==
    /\ ~crashed
    /\ ptPc = "video"
    /\ ptPc' = IF WantsVideo(mMsgEnabled, mRecordRunning) THEN "tscb" ELSE "datacb"
    /\ iter' = [ iter EXCEPT !.vbit = CAMERA_MSG_VIDEO_FRAME \in mMsgEnabled,
                             !.rec = mRecordRunning ]
    /\ UNCHANGED << mLock, noteVars, configVars, heapVars, previewStopped, mPreviewThread,
                    devVars, ctlVars, ptExitPending, afVars, crashed >>

\* yuyv422_to_yuv420sp reads width*height*2 bytes and writes width*height*3/2.
ConvertOverruns(w, h, src, dst) ==
    \/ src < w * h * 2
    \/ dst < (w * h * 3) \div 2

\* yuyv422_to_yuv420sp(mHeap, mRecordHeap, width, height);
\* mTimestampFn(timeStamp, CAMERA_MSG_VIDEO_FRAME, mRecordBuffer, mUser)
PreviewVideoFrame ==
    /\ ~crashed
    /\ CallbackReturns
    /\ ptPc = "tscb"
    /\ ptPc' = "datacb"
    /\ iter' = [ iter EXCEPT !.video = mRecordHeap ]
    /\ \/ crashed' = ~mTimestampFn
       \/ /\ ConvertOverruns(iter.w, iter.h, mHeap, mRecordHeap)
          /\ crashed' = TRUE
    /\ UNCHANGED << mLock, noteVars, configVars, heapVars, previewStopped, mPreviewThread,
                    devVars, ctlVars, ptExitPending, afVars >>

\* mDataFn(CAMERA_MSG_PREVIEW_FRAME, mBuffer, mUser)
PreviewDataFrame ==
    /\ ~crashed
    /\ CallbackReturns
    /\ ptPc = "datacb"
    /\ ptPc' = "run"
    /\ iter' = [ iter EXCEPT !.preview = mHeap ]
    /\ crashed' = ~mDataFn
    /\ UNCHANGED << mLock, noteVars, configVars, heapVars, previewStopped, mPreviewThread,
                    devVars, ctlVars, ptExitPending, afVars >>

\* ------------------------------------------------------- the control thread

\* The control thread issues driver calls: the session moves, the calls are logged.
Issue(calls) ==
    /\ camera' = RunCalls(camera, calls)
    /\ devLog' = devLog \o LogCalls(camera, calls)
    /\ unmatched' = unmatched + Balance(LogCalls(camera, calls))

\* StartPreviewCalls with the failure paths returning without undoing anything.
StartPreviewCallsNoUndo(opened, initOk, streamOk) ==
    IF ~opened THEN << <<"Open", FALSE>> >>
    ELSE IF ~initOk THEN << <<"Open", TRUE>>, <<"Init", FALSE>> >>
    ELSE << <<"Open", TRUE>>, <<"Init", TRUE>>, <<"StartStreaming", streamOk>> >>

\* The driver calls of startPreview() once no loop is held: the probe, then
\* Init and StartStreaming with the undo of what succeeded on a failure.
StartPreviewCalls(opened, initOk, streamOk) ==
    IF ~opened THEN << <<"Open", FALSE>> >>
    ELSE IF ~initOk THEN << <<"Open", TRUE>>, <<"Init", FALSE>>, <<"Close", TRUE>> >>
    ELSE IF ~streamOk
         THEN << <<"Open", TRUE>>, <<"Init", TRUE>>, <<"StartStreaming", FALSE>>,
                 <<"Uninit", TRUE>>, <<"Close", TRUE>> >>
    ELSE << <<"Open", TRUE>>, <<"Init", TRUE>>, <<"StartStreaming", TRUE>> >>

StartPreviewStatus(opened, initOk, streamOk) ==
    IF ~opened THEN "DEVICE_UNAVAILABLE"
    ELSE IF ~initOk THEN "INIT_FAILED"
    ELSE IF ~streamOk THEN "STREAM_FAILED"
    ELSE "NO_ERROR"

\* StartPreviewRunning with the buffer region allocated before the test of
\* mPreviewThread.
StartPreviewRunningRealloc ==
    /\ call' = [ op |-> "startPreview", status |-> "INVALID_OPERATION" ]
    /\ devLog' = << >>
    /\ picEvents' = 0
    /\ picSeen' = "untested"
    /\ mPreviewFrameSize' = mParameters.previewSize[1] * mParameters.previewSize[2] * 2
    /\ mHeap' = mPreviewFrameSize'
    /\ UNCHANGED << mLock, noteVars, configVars, mRecordHeap, mRecordRunning, previewStopped,
                    mPreviewThread, devVars, ctlPc, spLocal, ptVars, afVars,
                    crashed >>

\* startPreview() with a loop already held: return INVALID_OPERATION.
StartPreviewRunning ==
    /\ call' = [ op |-> "startPreview", status |-> "INVALID_OPERATION" ]
    /\ devLog' = << >>
    /\ picEvents' = 0
    /\ picSeen' = "untested"
    /\ UNCHANGED << mLock, noteVars, configVars, heapVars, previewStopped, mPreviewThread,
                    devVars, ctlPc, spLocal, ptVars, afVars, crashed >>

\* startPreview() with no loop held.
StartPreviewFresh(avail, initOk, streamOk) ==
    LET opened == ProbeNodes(0, avail) >= 0
        status == StartPreviewStatus(opened, initOk, streamOk)
        width == mParameters.previewSize[1]
        height == mParameters.previewSize[2]
    IN  /\ call' = [ op |-> "startPreview", status |-> status ]
        /\ picEvents' = 0
        /\ picSeen' = "untested"
        /\ camera' = RunCalls(camera, StartPreviewCalls(opened, initOk, streamOk))
        /\ devLog' = LogCalls(camera, StartPreviewCalls(opened, initOk, streamOk))
        /\ unmatched' = unmatched + Balance(devLog')
        /\ mPreviewFrameSize' = IF opened THEN width * height * 2 ELSE mPreviewFrameSize
        /\ mHeap' = IF opened THEN width * height * 2 ELSE mHeap
        /\ previewStopped' = IF status = "NO_ERROR" THEN FALSE ELSE previewStopped
        /\ mPreviewThread' = (status = "NO_ERROR")
        /\ ptPc' = IF status = "NO_ERROR" THEN "run" ELSE ptPc
        /\ ptExitPending' = FALSE
        /\ iter' = NoIter
        /\ UNCHANGED << mLock, noteVars, configVars, mRecordHeap, mRecordRunning, ctlPc, spLocal,
                        afVars, crashed >>

StartPreview(avail, initOk, streamOk) ==
    /\ ~crashed
    /\ mLock = "free"
    /\ ctlPc = "idle"
    /\ IF mPreviewThread
       THEN StartPreviewRunning
       ELSE StartPreviewFresh(avail, initOk, streamOk)

\* StopPreviewBegin without previewStopped = true.
StopPreviewBeginKeepsFlag(op) ==
    /\ ~crashed
    /\ mLock = "free"
    /\ ctlPc = "idle"
    /\ call' = [ op |-> op, status |-> "pending" ]
    /\ devLog' = << >>
    /\ picEvents' = 0
    /\ picSeen' = "untested"
    /\ spLocal' = mPreviewThread
    /\ ctlPc' = "sp_join"
    /\ UNCHANGED << mLock, noteVars, configVars, heapVars, previewStopped,
                    mPreviewThread, devVars, ptVars, afVars, crashed >>

\* stopPreview(), first two lock scopes: previewStopped = true;
\* previewThread = mPreviewThread.  Also the entry of takePicture(), which
\* calls stopPreview() first.
StopPreviewBegin(op) ==
    /\ ~crashed
    /\ mLock = "free"
    /\ ctlPc = "idle"
    /\ call' = [ op |-> op, status |-> "pending" ]
    /\ devLog' = << >>
    /\ picEvents' = 0
    /\ picSeen' = "untested"
    /\ previewStopped' = TRUE
    /\ spLocal' = mPreviewThread
    /\ ctlPc' = "sp_join"
    /\ UNCHANGED << mLock, noteVars, configVars, heapVars, mPreviewThread, devVars, ptVars,
                    afVars, crashed >>

\* if (previewThread != 0) previewThread->requestExitAndWait(): the request.
StopPreviewRequestExit ==
    /\ ~crashed
    /\ ctlPc = "sp_join"
    /\ ptExitPending' = (spLocal \/ ptExitPending)
    /\ ctlPc' = IF spLocal THEN "sp_wait" ELSE "sp_teardown"
    /\ UNCHANGED << mLock, noteVars, configVars, heapVars, previewStopped, mPreviewThread,
                    devVars, spLocal, call, devLog, picEvents, picSeen, ptPc, iter,
                    afVars, crashed >>

\* StopPreviewJoined with requestExit() in place of requestExitAndWait().
StopPreviewJoinedNoWait ==
    /\ ~crashed
    /\ ctlPc = "sp_wait"
    /\ ctlPc' = "sp_teardown"
    /\ UNCHANGED << mLock, noteVars, configVars, heapVars, previewStopped, mPreviewThread,
                    devVars, spLocal, call, devLog, picEvents, picSeen, ptVars,
                    afVars, crashed >>

\* requestExitAndWait(): the wait, over once the loop has exited.
StopPreviewJoined ==
    /\ ~crashed
    /\ ctlPc = "sp_wait"
    /\ ptPc = "exited"
    /\ ctlPc' = "sp_teardown"
    /\ UNCHANGED << mLock, noteVars, configVars, heapVars, previewStopped, mPreviewThread,
                    devVars, spLocal, call, devLog, picEvents, picSeen, ptVars, afVars,
                    crashed >>

\* TeardownCalls with the Close left out.
TeardownCallsNoClose == << <<"Uninit", TRUE>>, <<"StopStreaming", TRUE>> >>

\* The driver calls stopPreview() and pictureThread() end with.
TeardownCalls == << <<"Uninit", TRUE>>, <<"StopStreaming", TRUE>>, <<"Close", TRUE>> >>

\* StopPreviewTeardown without the test of mPreviewThread.
StopPreviewTeardownAlways ==
    /\ ~crashed
    /\ ctlPc = "sp_teardown"
    /\ Issue(<< <<"Uninit", TRUE>>, <<"StopStreaming", TRUE>>, <<"Close", TRUE>> >>)
    /\ ctlPc' = "sp_clear"
    /\ UNCHANGED << mLock, noteVars, configVars, heapVars, previewStopped, mPreviewThread,
                    spLocal, call, picEvents, picSeen, ptVars, afVars, crashed >>

\* if (mPreviewThread != 0) { camera.Uninit(); camera.StopStreaming(); camera.Close(); }
StopPreviewTeardown ==
    /\ ~crashed
    /\ ctlPc = "sp_teardown"
    /\ Issue(IF mPreviewThread THEN TeardownCalls ELSE << >>)
    /\ ctlPc' = "sp_clear"
    /\ UNCHANGED << mLock, noteVars, configVars, heapVars, previewStopped, mPreviewThread,
                    spLocal, call, picEvents, picSeen, ptVars, afVars, crashed >>

\* mPreviewThread.clear(); then stopPreview() returns, to the client or into
\* takePicture().
StopPreviewClear ==
    /\ ~crashed
    /\ mLock = "free"
    /\ ctlPc = "sp_clear"
    /\ mPreviewThread' = FALSE
    /\ spLocal' = FALSE
    /\ ptPc' = "none"
    /\ ptExitPending' = FALSE
    /\ iter' = NoIter
    /\ IF call.op = "takePicture"
       THEN /\ ctlPc' = "pic_shutter"
            /\ call' = call
       ELSE /\ ctlPc' = "idle"
            /\ call' = [ call EXCEPT !.status = "NO_ERROR" ]
    /\ UNCHANGED << mLock, noteVars, configVars, heapVars, previewStopped, devVars, devLog,
                    picEvents, picSeen, afVars, crashed >>

\* What takePicture() returns when pictureThread() returned `opened`:
\*     pictureThread(); return NO_ERROR;
TakePictureStatus(opened) == "NO_ERROR"

\* pictureThread(): if (mMsgEnabled & CAMERA_MSG_SHUTTER)
PictureTestShutter ==
    /\ ~crashed
    /\ ctlPc = "pic_shutter"
    /\ ctlPc' = IF CAMERA_MSG_SHUTTER \in mMsgEnabled THEN "pic_shutter_cb" ELSE "pic_open"
    /\ UNCHANGED << mLock, noteVars, configVars, heapVars, previewStopped, mPreviewThread,
                    devVars, spLocal, call, devLog, picEvents, picSeen, ptVars, afVars,
                    crashed >>

\* mNotifyFn(CAMERA_MSG_SHUTTER, 0, 0, mUser)
PictureShutter ==
    /\ ~crashed
    /\ CallbackReturns
    /\ ctlPc = "pic_shutter_cb"
    /\ ctlPc' = "pic_open"
    /\ crashed' = ~mNotifyFn
    /\ UNCHANGED << mLock, noteVars, configVars, heapVars, previewStopped, mPreviewThread,
                    devVars, spLocal, call, devLog, picEvents, picSeen, ptVars, afVars >>

\* The driver calls of pictureThread() up to the compressed-image test.
PictureSetupCalls(opened, initOk, streamOk) ==
    IF ~opened THEN << <<"Open", FALSE>> >>
    ELSE << <<"Open", TRUE>>, <<"Init", initOk>>, <<"StartStreaming", streamOk>> >>

\* The probe of pictureThread(), and on success camera.Init();
\* camera.StartStreaming(); with neither result looked at.  With no node
\* opened pictureThread() returns -1 and takePicture() returns.
PictureOpen(avail, initOk, streamOk) ==
    LET opened == ProbeNodes(0, avail) >= 0
    IN  /\ ~crashed
        /\ ctlPc = "pic_open"
        /\ Issue(PictureSetupCalls(opened, initOk, streamOk))
        /\ IF opened
           THEN /\ ctlPc' = "pic_msg"
                /\ call' = call
           ELSE /\ ctlPc' = "idle"
                /\ call' = [ call EXCEPT !.status = TakePictureStatus(FALSE) ]
        /\ UNCHANGED << mLock, noteVars, configVars, heapVars, previewStopped, mPreviewThread,
                        spLocal, picEvents, picSeen, ptVars, afVars, crashed >>

\* if (mMsgEnabled & CAMERA_MSG_COMPRESSED_IMAGE)
PictureTestCompressed ==
    /\ ~crashed
    /\ ctlPc = "pic_msg"
    /\ ctlPc' = IF CAMERA_MSG_COMPRESSED_IMAGE \in mMsgEnabled
                THEN "pic_jpeg_cb" ELSE "pic_teardown"
    /\ picSeen' = IF CAMERA_MSG_COMPRESSED_IMAGE \in mMsgEnabled THEN "on" ELSE "off"
    /\ UNCHANGED << mLock, noteVars, configVars, heapVars, previewStopped, mPreviewThread,
                    devVars, spLocal, call, devLog, picEvents, ptVars, afVars,
                    crashed >>

\* mDataFn(CAMERA_MSG_COMPRESSED_IMAGE, camera.GrabJpegFrame(), mUser)
PictureCompressed ==
    /\ ~crashed
    /\ CallbackReturns
    /\ ctlPc = "pic_jpeg_cb"
    /\ ctlPc' = "pic_teardown"
    /\ Issue(<< <<"GrabJpegFrame", TRUE>> >>)
    /\ picEvents' = picEvents + 1
    /\ crashed' = ~mDataFn
    /\ UNCHANGED << mLock, noteVars, configVars, heapVars, previewStopped, mPreviewThread,
                    spLocal, call, picSeen, ptVars, afVars >>

\* camera.Uninit(); camera.StopStreaming(); camera.Close(); return NO_ERROR;
\* then takePicture() returns.
PictureTeardown ==
    /\ ~crashed
    /\ ctlPc = "pic_teardown"
    /\ Issue(TeardownCalls)
    /\ ctlPc' = "idle"
    /\ call' = [ call EXCEPT !.status = TakePictureStatus(TRUE) ]
    /\ UNCHANGED << mLock, noteVars, configVars, heapVars, previewStopped, mPreviewThread,
                    spLocal, picEvents, picSeen, ptVars, afVars, crashed >>

\* ------------------------------------------------------------------ locking

\* The threads that run statements of the controller between the client's
\* calls: the preview thread, the thread inside stopPreview() or
\* takePicture(), and the autofocus tasks.
Threads == { "preview", "control", "focus" }

\* The shared fields the next statement of a thread reads outside every
\* Mutex::Autolock scope.  previewThread(), autoFocusThread() and
\* pictureThread() take no lock at all; stopPreview() tests mPreviewThread
\* between its second and its third scope.
UnlockedAccesses(t) ==
    CASE t = "preview" ->
           CASE ptPc = "run" /\ ~LoopExits -> { "mParameters" }
             [] ptPc = "stopped" -> { "previewStopped" }
             [] ptPc = "grab" -> { "camera", "mHeap" }
             [] ptPc = "msg" -> { "mMsgEnabled" }
             [] ptPc = "video" -> { "mMsgEnabled", "mRecordRunning" }
             [] ptPc = "tscb" -> { "mHeap", "mRecordHeap", "mTimestampFn" }
             [] ptPc = "datacb" -> { "mHeap", "mDataFn" }
             [] OTHER -> {}
      [] t = "control" ->
           CASE ctlPc = "sp_teardown" -> { "mPreviewThread", "camera" }
             [] ctlPc = "pic_shutter" -> { "mMsgEnabled" }
             [] ctlPc = "pic_shutter_cb" -> { "mNotifyFn" }
             [] ctlPc = "pic_open" -> { "mParameters", "camera" }
             [] ctlPc = "pic_msg" -> { "mMsgEnabled" }
             [] ctlPc = "pic_jpeg_cb" -> { "mDataFn", "camera" }
             [] ctlPc = "pic_teardown" -> { "camera" }
             [] OTHER -> {}
      [] t = "focus" ->
           (IF afCheck > 0 THEN { "mMsgEnabled" } ELSE {})
             \cup (IF afNotify > 0 THEN { "mNotifyFn" } ELSE {})

\* ------------------------------------------------------------ specification

\* The kinds the preview loop tests.
FrameKinds == { CAMERA_MSG_PREVIEW_FRAME, CAMERA_MSG_VIDEO_FRAME }

\* The steps of stopPreview() after its entry.
StopPreviewSteps ==
    \/ StopPreviewRequestExit
    \/ StopPreviewJoined
    \/ StopPreviewTeardown
    \/ StopPreviewClear

\* The steps of the preview thread up to the frame deliveries.
PreviewSteps ==
    \/ PreviewLoopTop
    \/ PreviewTestStopped
    \/ PreviewGrab
    \/ PreviewTestMsg
    \/ PreviewTestVideo
    \/ PreviewDataFrame

\* The steps of pictureThread() inside takePicture().
PictureSteps ==
    \/ PictureTestShutter
    \/ PictureShutter
    \/ \E avail \in NodeSets : \E initOk, streamOk \in BOOLEAN :
           PictureOpen(avail, initOk, streamOk)
    \/ PictureTestCompressed
    \/ PictureCompressed
    \/ PictureTeardown

\* The controller with a client that previews, takes pictures and focuses,
\* at the default configuration and without recording.  setCallbacks installs
\* all three entry points or none of them.
Next ==
    \/ \E n \in BOOLEAN : SetCallbacks(n, n, n)
    \/ \E k \in MsgTypes : EnableMsgType(k)
    \/ \E k \in MsgTypes : DisableMsgType(k)
    \/ \E spawned \in BOOLEAN : AutoFocus(spawned)
    \/ AutoFocusTest
    \/ AutoFocusNotify
    \/ \E avail \in NodeSets : \E initOk, streamOk \in BOOLEAN :
           StartPreview(avail, initOk, streamOk)
    \/ \E op \in { "stopPreview", "takePicture" } : StopPreviewBegin(op)
    \/ StopPreviewSteps
    \/ PictureSteps
    \/ PreviewSteps

Spec == Init /\ [][Next]_vars

\* The controller with a client that previews, records and reconfigures the
\* preview size, toggling the two kinds the preview loop tests.
NextPreview ==
    \/ \E n \in BOOLEAN : SetCallbacks(n, n, n)
    \/ \E k \in FrameKinds : EnableMsgType(k)
    \/ \E k \in FrameKinds : DisableMsgType(k)
    \/ \E params \in ConfigRequests : SetParameters(params)
    \/ StartRecording
    \/ StopRecording
    \/ \E avail \in NodeSets : \E initOk, streamOk \in BOOLEAN :
           StartPreview(avail, initOk, streamOk)
    \/ StopPreviewBegin("stopPreview")
    \/ StopPreviewSteps
    \/ PreviewSteps
    \/ PreviewVideoFrame

SpecPreview == Init /\ [][NextPreview]_vars

\* The configuration specification: a client that sets and gets the
\* parameters, with every request and result noted.
NextConfig ==
    \/ \E params \in ConfigInputs : SetParametersCall(params, TRUE)
    \/ GetParameters

SpecConfig == Init /\ [][NextConfig]_vars

\* The autofocus specification: a client that installs callbacks, enables
\* and disables the focus kind and calls autoFocus, with every call's status
\* and every focus callback noted.
NextFocus ==
    \/ \E n \in BOOLEAN : SetCallbacks(n, n, n)
    \/ EnableMsgType(CAMERA_MSG_FOCUS)
    \/ DisableMsgType(CAMERA_MSG_FOCUS)
    \/ \E spawned \in BOOLEAN : AutoFocusCall(spawned, TRUE)
    \/ AutoFocusTest
    \/ AutoFocusThreadNotify(TRUE)

SpecFocus == Init /\ [][NextFocus]_vars

\* The shutdown specification: a client that starts and stops preview while
\* the preview-frame kind and the callbacks change.  The preview thread is
\* scheduled fairly and every frame grab returns (weak fairness of its
\* steps), and the thread inside stopPreview() keeps running (weak fairness
\* of the steps after its entry).
NextLive ==
    \/ \E n \in BOOLEAN : SetCallbacks(n, n, n)
    \/ EnableMsgType(CAMERA_MSG_PREVIEW_FRAME)
    \/ DisableMsgType(CAMERA_MSG_PREVIEW_FRAME)
    \/ \E avail \in NodeSets : \E initOk, streamOk \in BOOLEAN :
           StartPreview(avail, initOk, streamOk)
    \/ StopPreviewBegin("stopPreview")
    \/ StopPreviewSteps
    \/ PreviewSteps

SpecLive ==
    Init /\ [][NextLive]_vars /\ WF_vars(PreviewSteps) /\ WF_vars(StopPreviewSteps)


\* ------------------------------------------------------------------ claims

Returned(op) == ctlPc = "idle" /\ call.op = op

\* A node was opened by the call the log belongs to.
OpenedInCall == \E i \in 1..Len(devLog) : devLog[i].op = "Open" /\ devLog[i].ok

FailedStart == { "DEVICE_UNAVAILABLE", "INIT_FAILED", "STREAM_FAILED" }

\* C1: when stopPreview or the still cycle of takePicture unwinds the device
\* session, Uninit is never issued while the session is Streaming, and every
\* Uninit directly follows a StopStreaming (StopStreaming, Uninit, Close).
C1_UnwindInReverseOrder ==
    call.op \in { "stopPreview", "takePicture" } =>
        \A i \in 1..Len(devLog) :
            devLog[i].op = "Uninit" =>
                /\ devLog[i].at # "Streaming"
                /\ i > 1
                /\ devLog[i - 1].op = "StopStreaming"

\* C2: no producer is ever about to invoke a callback for an event kind whose
\* bit is clear in mMsgEnabled: not the preview loop (preview frame, video
\* frame), not an autofocus task (focus), not takePicture (shutter,
\* compressed image).
C2_NoCallbackForDisabledKind ==
    /\ ptPc = "datacb" => CAMERA_MSG_PREVIEW_FRAME \in mMsgEnabled
    /\ ptPc = "tscb" => CAMERA_MSG_VIDEO_FRAME \in mMsgEnabled
    /\ afNotify > 0 => CAMERA_MSG_FOCUS \in mMsgEnabled
    /\ ctlPc = "pic_shutter_cb" => CAMERA_MSG_SHUTTER \in mMsgEnabled
    /\ ctlPc = "pic_jpeg_cb" => CAMERA_MSG_COMPRESSED_IMAGE \in mMsgEnabled

\* C3: a finished loop iteration that found preview not stopped (and so
\* grabbed a frame) has made the preview-frame callback if and only if the
\* preview-frame or the video-frame kind was enabled when it tested
\* mMsgEnabled; an iteration that found preview stopped has delivered nothing.
C3_PreviewFrameIffKindEnabled ==
    ptPc = "run" =>
        IF iter.grab # "none"
        THEN (iter.preview # NoHeap) <=> (iter.seen # {})
        ELSE iter.preview = NoHeap /\ iter.video = NoHeap

\* C3 witness: an iteration has delivered a preview frame with only the
\* video-frame kind enabled.
C3_Witness ==
    /\ ptPc = "run"
    /\ iter.grab = "Streaming"
    /\ iter.seen = { CAMERA_MSG_VIDEO_FRAME }
    /\ iter.preview = mHeap
    /\ ~crashed

\* C4: a startPreview call made while the loop handle is held returns
\* INVALID_OPERATION, issues no driver call and leaves the session, the buffer
\* regions, the stopped flag, the loop handle and the loop itself as they were.
C4_StartWhileRunningChangesNothing ==
    [][ ( /\ mPreviewThread
          /\ call' # call
          /\ call'.op = "startPreview" )
        => ( /\ call'.status = "INVALID_OPERATION"
             /\ devLog' = << >>
             /\ UNCHANGED << camera, unmatched, heapVars, previewStopped,
                             mPreviewThread, ptVars, configVars >> ) ]_vars

\* C4 witness: startPreview has been refused while a preview of 640x480 runs
\* on the buffer region allocated for 320x240.
C4_Witness ==
    /\ Returned("startPreview")
    /\ call.status = "INVALID_OPERATION"
    /\ mPreviewThread
    /\ mHeap = MIN_WIDTH * MIN_HEIGHT * 2
    /\ mParameters.previewSize = <<640, 480>>

\* C5: a stopPreview that finds no loop handle (preview never started, or
\* already stopped) issues no driver call and returns without error; Opens
\* and Closes pair up: at most one successful Open is unmatched, exactly when
\* the session is not Closed, and none is unmatched while no loop is held and
\* no call is in progress.
C5_StopPreviewIdempotent ==
    /\ (call.op = "stopPreview" /\ ctlPc = "sp_clear" /\ ~spLocal) =>
           (devLog = << >> /\ camera = "Closed")
    /\ Returned("stopPreview") => (call.status = "NO_ERROR" /\ camera = "Closed")
    /\ unmatched \in { 0, 1 }
    /\ (unmatched = 1) <=> (camera # "Closed")
    /\ (ctlPc = "idle" /\ ~mPreviewThread) => unmatched = 0

\* C5 witness: a stopPreview that found no handle, after an earlier preview
\* had allocated its buffer region, is past its teardown step.
C5_Witness ==
    /\ call.op = "stopPreview"
    /\ ctlPc = "sp_clear"
    /\ ~spLocal
    /\ mHeap # NoHeap
    /\ devLog = << >>

\* C6: stopPreview tears the device down and clears the handle only after the
\* loop has exited, with the stopped flag set throughout and the handle held
\* until the last step; once it has returned, and until a startPreview
\* succeeds, there is no loop to grab, write or call back.
C6_LoopQuietAfterStop ==
    /\ ctlPc \in { "sp_join", "sp_wait", "sp_teardown", "sp_clear" } => previewStopped
    /\ ctlPc \in { "sp_join", "sp_wait", "sp_teardown", "sp_clear" } =>
           mPreviewThread = spLocal
    /\ ctlPc \in { "sp_teardown", "sp_clear" } => ptPc \in { "none", "exited" }
    /\ (call.op = "stopPreview" /\ devLog # << >>) => ptPc \in { "none", "exited" }
    /\ Returned("stopPreview") => ~mPreviewThread
    /\ ~mPreviewThread => (ptPc = "none" /\ previewStopped)

\* C6 witness: stopPreview has returned after joining a loop and tearing the
\* device down.
C6_Witness ==
    /\ Returned("stopPreview")
    /\ call.status = "NO_ERROR"
    /\ Len(devLog) = 3
    /\ ptPc = "none"
    /\ ~crashed

\* C7: takePicture returns CaptureFailed exactly when its still cycle opened
\* no device node.
C7_CaptureFailedWhenNoNode ==
    Returned("takePicture") =>
        ((call.status = "CAPTURE_FAILED") <=> ~OpenedInCall)

\* C8 as claimed: a takePicture that has returned with the compressed-image
\* kind enabled (and never found disabled by the call) has delivered exactly
\* one compressed-image event.
C8_OneCompressedImagePerCall ==
    ( /\ Returned("takePicture")
      /\ CAMERA_MSG_COMPRESSED_IMAGE \in mMsgEnabled
      /\ picSeen # "off" )
    => picEvents = 1

\* C8 as amended: a takePicture that has returned has delivered exactly one
\* compressed-image event if its still cycle opened a node and found the kind
\* enabled, and none otherwise (none at all when no node opened); and preview
\* is stopped: no loop, no handle, stopped flag set, session Closed.
C8_OneCompressedImageWhenOpened ==
    Returned("takePicture") =>
        /\ picEvents = (IF picSeen = "on" THEN 1 ELSE 0)
        /\ OpenedInCall <=> (picSeen # "untested")
        /\ ~mPreviewThread
        /\ ptPc = "none"
        /\ previewStopped
        /\ camera = "Closed"
        /\ unmatched = 0

\* C8 witness: a takePicture that interrupted a running preview has returned
\* after delivering its compressed image.
C8_Witness ==
    /\ Returned("takePicture")
    /\ picSeen = "on"
    /\ picEvents = 1
    /\ \E i \in 1..Len(devLog) : devLog[i].op = "StopStreaming" /\ devLog[i].ok
    /\ Len(devLog) > 7
    /\ ~crashed

\* C9: a startPreview that has failed (no node, Init, StartStreaming) leaves
\* the session Closed with no Open unmatched, every driver call of it issued
\* in order, no loop and no handle (so the next startPreview is not refused),
\* and the stopped flag set.
C9_FailedStartLeavesClosed ==
    (Returned("startPreview") /\ call.status \in FailedStart) =>
        /\ camera = "Closed"
        /\ unmatched = 0
        /\ \A i \in 1..Len(devLog) : devLog[i].at = Requires(devLog[i].op)
        /\ ~mPreviewThread
        /\ ptPc = "none"
        /\ previewStopped

\* C9 witness: startPreview has failed at StartStreaming and undone Init and Open.
C9_Witness ==
    /\ Returned("startPreview")
    /\ call.status = "STREAM_FAILED"
    /\ Len(devLog) = 5
    /\ devLog[4].op = "Uninit"
    /\ devLog[5].op = "Close"

\* C10: the record buffer handed to the timestamp callback measures 3/4 of
\* width*height*2 for the width and height the iteration uses.
C10_RecordBufferSize ==
    iter.video # NoHeap => iter.video = (iter.w * iter.h * 2 * 3) \div 4

\* An iteration of the loop has ended after grabbing a frame.
IterationDone == ptPc = "run" /\ iter.grab # "none"

\* A finished iteration has delivered a video-frame event exactly if preview
\* was not stopped and its test found the video-frame kind enabled and the
\* recording flag set.
C11_VideoFrameIffKindAndRecording ==
    ptPc = "run" =>
        ((iter.video # NoHeap) <=> (iter.grab # "none" /\ iter.vbit /\ iter.rec))

\* C11: a loop iteration delivers a video-frame event exactly if preview is
\* not stopped, the video-frame kind is enabled and the recording flag is
\* set; and whether the iteration delivers a preview-frame event does not
\* depend on the video-frame kind, so that disabling that kind changes the
\* video-frame events only.
C11_VideoKindOnlyGatesVideoFrames ==
    /\ C11_VideoFrameIffKindAndRecording
    /\ IterationDone =>
           ((iter.preview # NoHeap) <=> (CAMERA_MSG_PREVIEW_FRAME \in iter.seen))

\* The noted setParameters request named an unsupported format.
BadFormat == cfgReq.previewFormat # "yuv422sp" \/ cfgReq.pictureFormat # "jpeg"

\* C12: a setParameters whose preview format or picture format is not the
\* supported one returns the unsupported-format status, and mParameters (and
\* what getParameters returns afterwards) is exactly what the call found.
C12_BadFormatRejectedUnchanged ==
    (cfgRet # "none" /\ BadFormat) =>
        /\ cfgRet = "UNSUPPORTED_FORMAT"
        /\ mParameters = cfgPrev
        /\ got # NoParameters => got = cfgPrev

C12_Witness ==
    /\ cfgRet = "UNSUPPORTED_FORMAT"
    /\ cfgReq.previewFormat = "yuv422sp"
    /\ cfgReq.previewSize # cfgPrev.previewSize
    /\ cfgPrev.frameRate # DefaultParameters.frameRate
    /\ got = cfgPrev

\* C13: after a successful setParameters, getParameters returns the preview
\* size, picture size and frame rate of the request, and the fixed
\* supportedFpsRanges list whatever list the request carried.
C13_SetThenGet ==
    (cfgRet = "NO_ERROR" /\ got # NoParameters) =>
        /\ got.previewSize = cfgReq.previewSize
        /\ got.pictureSize = cfgReq.pictureSize
        /\ got.frameRate = cfgReq.frameRate
        /\ got.fpsRange = supportedFpsRanges

C13_Witness ==
    /\ cfgRet = "NO_ERROR"
    /\ got # NoParameters
    /\ cfgReq.fpsRange \notin { << >>, supportedFpsRanges }
    /\ cfgReq.previewSize # cfgPrev.previewSize
    /\ cfgReq.pictureSize # cfgReq.previewSize
    /\ cfgReq.frameRate # cfgPrev.frameRate

\* C14: an autoFocus call that returns NO_ERROR starts exactly one task and
\* makes no callback itself; the task makes exactly one focus callback if it
\* finds the focus kind enabled when it runs and none if it finds it
\* disabled; a call that cannot start the task returns UNKNOWN_ERROR and
\* starts and delivers nothing; focus callbacks come from tasks only.
C14_OneFocusEventPerTask ==
    [][ /\ afCalls' # afCalls =>
             /\ afRet' \in { "NO_ERROR", "UNKNOWN_ERROR" }
             /\ afCheck' = IF afRet' = "NO_ERROR" THEN afCheck + 1 ELSE afCheck
             /\ afSpawned' = IF afRet' = "NO_ERROR" THEN afSpawned + 1 ELSE afSpawned
             /\ UNCHANGED << afNotify, afEvents >>
        /\ afCheck' < afCheck =>
             /\ afCheck' = afCheck - 1
             /\ afNotify' = IF CAMERA_MSG_FOCUS \in mMsgEnabled
                            THEN afNotify + 1 ELSE afNotify
             /\ afEvents' = afEvents
        /\ afNotify' < afNotify =>
             /\ afNotify' = afNotify - 1
             /\ afEvents' = afEvents + 1
        /\ afEvents' # afEvents => afNotify' < afNotify
        /\ afNotify' > afNotify => afCheck' < afCheck
        /\ afCheck' > afCheck => afCalls' # afCalls
      ]_vars

\* One task has made its callback, one has found the kind disabled and made
\* none, and the last call could not start its task.
C14_Witness ==
    /\ afEvents = 1
    /\ afSpawned = 2
    /\ afCheck + afNotify = 0
    /\ afRet = "UNKNOWN_ERROR"
    /\ ~crashed

\* The driver calls that advance or use the session.
ForwardOps == { "Open", "Init", "StartStreaming", "GrabPreviewFrame", "GrabJpegFrame" }

\* C15: every Open is issued with the session Closed, every Init with it
\* Opened, every StartStreaming with it Initialized and every frame grab with
\* it Streaming, in startPreview, in the loop and in takePicture, whether or
\* not Init or StartStreaming succeeds.
C15_DeviceOpsInOrder ==
    /\ \A i \in DOMAIN devLog :
          devLog[i].op \in ForwardOps => devLog[i].at = Requires(devLog[i].op)
    /\ iter.grab \in { "none", Requires("GrabPreviewFrame") }

\* C16: no thread is ever at a statement that reads or writes a shared field
\* (parameters, enabled kinds, buffers, device session, recording flag,
\* stopped flag, callbacks, loop handle) outside a scope of mLock.
C16_SharedStateUnderLock ==
    ~crashed => \A t \in Threads : UnlockedAccesses(t) = {}

\* C17: an iteration that converts a frame uses the width and height the
\* preview buffer of the running cycle was allocated for (width * height * 2
\* bytes), whatever setParameters has stored since startPreview.
C17_IterationUsesAllocatedSize ==
    (~crashed /\ ptPc = "tscb") => iter.w * iter.h * 2 = mHeap

\* stopPreview() has been entered and has not returned.
InStopPreview == ctlPc \in { "sp_join", "sp_wait", "sp_teardown", "sp_clear" }

\* stopPreview() has returned with the loop gone and the handle cleared.
StopPreviewDone == Returned("stopPreview") /\ ~mPreviewThread /\ ptPc = "none"

\* Every stopPreview() that has been entered returns, unless a call through a
\* null entry point has ended the process; and it waits without mLock.
C18_StopPreviewReturnsUnlessCrashed ==
    /\ InStopPreview ~> (StopPreviewDone \/ crashed)
    /\ [](ctlPc = "sp_wait" => mLock = "free")

\* C18: with the preview thread scheduled fairly and every frame grab
\* returning, every stopPreview() that has been entered returns, with the
\* loop exited and the handle cleared; and while it waits for the loop it
\* does not hold mLock.
C18_StopPreviewReturns ==
    /\ InStopPreview ~> StopPreviewDone
    /\ [](ctlPc = "sp_wait" => mLock = "free")

\* C19: whenever the control thread is in no operation, the loop handle is
\* held exactly if the stopped flag is clear and the session is Streaming;
\* and with no handle held the stopped flag is set and the session Closed.
C19_HandleIffStreaming ==
    ctlPc = "idle" =>
        /\ mPreviewThread <=> (~previewStopped /\ camera = "Streaming")
        /\ ~mPreviewThread => (previewStopped /\ camera = "Closed")

\* startPreview() has returned NO_ERROR and the loop it started is about to
\* deliver a frame.
C19_Witness ==
    /\ ctlPc = "idle"
    /\ mPreviewThread
    /\ call = [ op |-> "startPreview", status |-> "NO_ERROR" ]
    /\ unmatched = 1
    /\ ptPc = "datacb"
    /\ mDataFn

\* C20: no producer (the preview loop, the autofocus task, takePicture) ever
\* calls through a callback entry point that is still null.  Without
\* recording, a call through a null entry point is the only thing that sets
\* crashed.
C20_NoCallThroughNull == ~crashed

====
